---------------------------- MODULE Spec2Model ----------------------------
(***************************************************************************)
(* A model of vue-property-decorator 7.3.0 (src/vue-property-decorator.ts). *)
(*                                                                         *)
(* The registrars Inject, Provide, Model, Prop and Watch mutate the        *)
(* component options object that vue-class-component hands to them; Emit   *)
(* replaces a method by a wrapper that calls $emit after the method        *)
(* returned, at once for an immediate value and on fulfilment for a        *)
(* promise.                                                                *)
(*                                                                         *)
(* A JavaScript value is a record [t |-> typeof-like tag, v |-> text],     *)
(* where the text is a sequence of one-character strings, so that all      *)
(* values are comparable and a string can be scanned by a regular          *)
(* expression.                                                             *)
(***************************************************************************)
EXTENDS Naturals, Sequences, FiniteSets, TLC

VARIABLES
    event,          \* Emit: the decorator's argument (undefined when absent)
    key,            \* Emit: the decorated method's name
    hkey,           \* Emit: the closure's key after key = hyphenate(key)
    calls,          \* Emit: one record per call of the wrapper
    props,          \* componentOptions.props
    props0,         \* componentOptions.props before the first registrar ran
    model,          \* componentOptions.model
    inject,         \* componentOptions.inject
    inject0,        \* componentOptions.inject before the first registrar ran
    provide,        \* componentOptions.provide
    provide0,       \* componentOptions.provide before the first registrar ran
    created,        \* Provide: number of wrapper functions created so far
    rv,             \* Provide: what the last call of provide() returned
    watch,          \* componentOptions.watch
    watch0,         \* componentOptions.watch before the first registrar ran
    threw,          \* a registrar raised a TypeError
    history         \* the decorator applications so far, in order

emitVars == <<event, key, hkey, calls>>
propVars == <<props, props0, model>>
injectVars == <<inject, inject0>>
provideVars == <<provide, provide0, created, rv>>
watchVars == <<watch, watch0, threw>>
vars == <<event, key, hkey, calls, props, props0, model, inject, inject0,
          provide, provide0, created, rv, watch, watch0, threw, history>>

----------------------------------------------------------------------------
(* Bounds of the model.                                                    *)

\* longest method name handed to hyphenate
MaxKeyLen == 3
\* calls of one Emit-wrapped method
MaxCalls == 2
\* times a third-party thenable runs its success callback
MaxThenCalls == 2
\* decorator applications on one component options object
MaxDecorators == 3

----------------------------------------------------------------------------
(* JavaScript values.                                                      *)

Val(t, v) == [t |-> t, v |-> v]
Undefined == Val("undefined", <<>>)
Null == Val("null", <<>>)
False == Val("boolean", <<"f">>)
True == Val("boolean", <<"t">>)
Zero == Val("number", <<"0">>)
One == Val("number", <<"1">>)
Two == Val("number", <<"2">>)
Five == Val("number", <<"5">>)
Str(s) == Val("string", s)
EmptyStr == Str(<<>>)
Ok == Str(<<"o", "k">>)
\* {} : the default of Prop's and Model's options
EmptyObj == Val("object", <<"{", "}">>)
\* an object without a then member
PlainObj == Val("object", <<"o">>)
\* an object whose then member is not callable: {then: 1}
ThenNumObj == Val("object", <<"n">>)
\* a native Promise
NativePromise == Val("object", <<"P">>)
\* a third-party object with a callable then
Thenable == Val("object", <<"T">>)

\* ToBoolean: what `x || y` and `x && y` test
Truthy(x) ==
    /\ x.t \notin {"undefined", "null"}
    /\ x # False
    /\ x # Zero
    /\ x # EmptyStr

\* a || b
Or(a, b) == IF Truthy(a) THEN a ELSE b

----------------------------------------------------------------------------
(* hyphenate: str.replace(/\B([A-Z])/g, '-$1').toLowerCase()               *)

UpperChars == <<"A", "B", "C", "D", "E", "F", "G", "H", "I", "J", "K", "L", "M",
                "N", "O", "P", "Q", "R", "S", "T", "U", "V", "W", "X", "Y", "Z">>
LowerChars == <<"a", "b", "c", "d", "e", "f", "g", "h", "i", "j", "k", "l", "m",
                "n", "o", "p", "q", "r", "s", "t", "u", "v", "w", "x", "y", "z">>
DigitChars == <<"0", "1", "2", "3", "4", "5", "6", "7", "8", "9">>

Range(s) == {s[i] : i \in 1..Len(s)}

\* [A-Z]
IsUpper(c) == c \in Range(UpperChars)

\* \w : [A-Za-z0-9_]
IsWordChar(c) == c \in Range(UpperChars) \cup Range(LowerChars) \cup Range(DigitChars) \cup {"_"}

\* one character of String.prototype.toLowerCase
ToLower(c) ==
    IF IsUpper(c) THEN LowerChars[CHOOSE i \in 1..26 : UpperChars[i] = c] ELSE c

toLowerCase(str) == [i \in 1..Len(str) |-> ToLower(str[i])]

\* \B before position i: the characters on both sides are both word
\* characters or both not (the outside of the string is not a word character)
NonWordBoundary(str, i) ==
    LET before == i > 1 /\ IsWordChar(str[i - 1])
        after == i <= Len(str) /\ IsWordChar(str[i])
    IN  before = after

\* a mutant of hyphenateRE: /([A-Z])/g, the \B forgotten
hyphenateRE_NoBoundary(str, i) == IsUpper(str[i])

\* /\B([A-Z])/ matches at position i of str
hyphenateRE(str, i) == NonWordBoundary(str, i) /\ IsUpper(str[i])

\* str.replace(hyphenateRE, '-$1'), from position i on
RECURSIVE Replace(_, _)
Replace(str, i) ==
    IF i > Len(str) THEN <<>>
    ELSE (IF hyphenateRE(str, i) THEN <<"-", str[i]>> ELSE <<str[i]>>)
         \o Replace(str, i + 1)

hyphenate(str) == toLowerCase(Replace(str, 1))

----------------------------------------------------------------------------
(* The options object before any decorator ran, and the parts of the state *)
(* a specification leaves alone.                                           *)

\* the names of the decorated members
FieldA == Str(<<"a">>)
FieldB == Str(<<"b">>)
Members == {FieldA, FieldB}
\* an object without own entries for the members
NoEntries == [k \in Members |-> Undefined]

EmitIdle ==
    /\ event = Undefined
    /\ key = <<>>
    /\ hkey = Undefined
    /\ calls = <<>>

----------------------------------------------------------------------------
(* Emit                                                                    *)

\* the characters method names are drawn from
Alphabet == {"a", "B", "Z", "1", "_", "$"}

RECURSIVE NamesOfLen(_)
NamesOfLen(n) ==
    IF n = 0 THEN {<<>>}
    ELSE {<<c>> \o s : c \in Alphabet, s \in NamesOfLen(n - 1)}

\* every non-empty name of at most MaxKeyLen characters
Names == UNION {NamesOfLen(n) : n \in 1..MaxKeyLen}

DoThing == <<"d", "o", "T", "h", "i", "n", "g">>
Go == Str(<<"g", "o">>)

\* Emit(), Emit('') and Emit('go')
Events == {Undefined, EmptyStr, Go}

\* the arguments of a call: (1, 2)
ArgLists == {<<One, Two>>}
Immediates == {Undefined, Null, False, Zero, EmptyStr, Five, PlainObj, ThenNumObj}
Deferreds == {NativePromise, Thenable}
ReturnValues == Immediates \cup Deferreds
\* what a deferred value is fulfilled with
SettledValues == {Undefined, Ok}

\* obj instanceof Promise
InstanceofPromise(obj) == obj = NativePromise

\* typeof obj.then, for an obj that is neither null nor undefined
TypeofThen(obj) ==
    IF obj \in {NativePromise, Thenable} THEN "function"
    ELSE IF obj = ThenNumObj THEN "number"
    ELSE "undefined"

\* a mutant of isPromise: only native promises are recognised
isPromise_NativeOnly(obj) == InstanceofPromise(obj)

isPromise(obj) ==
    InstanceofPromise(obj) \/ (Truthy(obj) /\ TypeofThen(obj) = "function")

\* a mutant of unshift: `if (returnValue)` for `if (returnValue !== undefined)`
unshift_Truthy(returnValue, args) ==
    IF Truthy(returnValue) THEN <<returnValue>> \o args ELSE args

\* if (returnValue !== undefined) args.unshift(returnValue)
unshift(returnValue, args) ==
    IF returnValue # Undefined THEN <<returnValue>> \o args ELSE args

\* event || key
EventName == Or(event, hkey)

Ev(e, argv) == [e |-> e, argv |-> argv]

\* the closure emit of one call: args is the call's own array, changed in place
emit(call, returnValue) ==
    LET args == unshift(returnValue, call.args)
    IN  [call EXCEPT !.args = args,
                     !.events = Append(@, Ev("emit", <<EventName>> \o args))]

\* returnValue.then(cb): the callback is registered; a third-party thenable
\* that is already fulfilled may run it before then returns
then(call, sync) ==
    LET c == [call EXCEPT !.registered = TRUE]
    IN  IF sync /\ c.st = "fulfilled"
        THEN [emit(c, c.val) EXCEPT !.fired = 1]
        ELSE c

\* Emit(event) applied to the method key
Emit ==
    /\ hkey = Undefined
    /\ hkey' = Str(hyphenate(key))
    /\ UNCHANGED <<event, key, calls>>
    /\ UNCHANGED <<propVars, injectVars, provideVars, watchVars, history>>

\* one call of the wrapper with args; original returns ret, a deferred ret
\* being pending, fulfilled with val or rejected at that moment
emitter(args, ret, st, val, sync) ==
    /\ hkey # Undefined
    /\ Len(calls) < MaxCalls
    /\ LET c0 == [args |-> args, orig |-> args, ret |-> ret, st |-> st,
                  val |-> val, registered |-> FALSE, fired |-> 0,
                  events |-> <<Ev("original", args)>>]
           c1 == IF isPromise(ret) THEN then(c0, sync) ELSE emit(c0, ret)
       IN  calls' = Append(calls, [c1 EXCEPT !.events = Append(@, Ev("return", <<>>))])
    /\ UNCHANGED <<event, key, hkey>>
    /\ UNCHANGED <<propVars, injectVars, provideVars, watchVars, history>>

\* the deferred value of call c is fulfilled with v
Settle(c, v) ==
    /\ calls[c].st = "pending"
    /\ calls' = [calls EXCEPT ![c].st = "fulfilled", ![c].val = v]
    /\ UNCHANGED <<event, key, hkey>>
    /\ UNCHANGED <<propVars, injectVars, provideVars, watchVars, history>>

\* the deferred value of call c is rejected
Reject(c) ==
    /\ calls[c].st = "pending"
    /\ calls' = [calls EXCEPT ![c].st = "rejected"]
    /\ UNCHANGED <<event, key, hkey>>
    /\ UNCHANGED <<propVars, injectVars, provideVars, watchVars, history>>

\* the callback handed to then runs for the first time
RunReaction(c) ==
    /\ c <= Len(calls)
    /\ calls[c].registered
    /\ calls[c].st = "fulfilled"
    /\ calls[c].fired = 0
    /\ calls' = [calls EXCEPT ![c] = [emit(calls[c], calls[c].val) EXCEPT !.fired = 1]]
    /\ UNCHANGED <<event, key, hkey>>
    /\ UNCHANGED <<propVars, injectVars, provideVars, watchVars, history>>

\* a third-party thenable runs the callback once more
ThenableRepeat(c) ==
    /\ calls[c].ret = Thenable
    /\ calls[c].registered
    /\ calls[c].st = "fulfilled"
    /\ calls[c].fired >= 1
    /\ calls[c].fired < MaxThenCalls
    /\ calls' = [calls EXCEPT ![c] = [emit(calls[c], calls[c].val)
                                        EXCEPT !.fired = calls[c].fired + 1]]
    /\ UNCHANGED <<event, key, hkey>>
    /\ UNCHANGED <<propVars, injectVars, provideVars, watchVars, history>>

----------------------------------------------------------------------------
(* Prop and Model                                                          *)

\* {required: true} and the constructor Number
Required == Val("object", <<"r">>)
NumberCtor == Val("function", <<"N">>)
\* the options argument: absent, a record, a constructor
PropOptionsArgs == {Undefined, Required, NumberCtor}
Change == Str(<<"c", "h", "g">>)
\* Model(), Model('') and Model('chg')
ModelEvents == {Undefined, EmptyStr, Change}

\* componentOptions.props: undefined, or an object
NoProps == [def |-> FALSE, m |-> NoEntries]
\* componentOptions.model: undefined, or {prop, event}
NoModel == [def |-> FALSE, prop |-> Undefined, event |-> Undefined]

PropIdle ==
    /\ props = NoProps
    /\ props0 = NoProps
    /\ model = NoModel

\* a default parameter: `options = {}`
DefaultOptions(options) == IF options = Undefined THEN EmptyObj ELSE options

\* a mutant of SetProp: an entry that exists is kept
SetProp_KeepFirst(p, k, options) ==
    IF p.def /\ p.m[k] # Undefined THEN p
    ELSE [def |-> TRUE, m |-> [(IF p.def THEN p.m ELSE NoEntries) EXCEPT ![k] = options]]

\* (componentOptions.props || (componentOptions.props = {}))[k] = options
SetProp(p, k, options) ==
    [def |-> TRUE, m |-> [(IF p.def THEN p.m ELSE NoEntries) EXCEPT ![k] = options]]

\* a mutant of ModelRecord: the first model record is kept
ModelRecord_KeepFirst(old, k, ev) ==
    IF old.def THEN old ELSE [def |-> TRUE, prop |-> k, event |-> Or(ev, k)]

\* componentOptions.model = { prop: k, event: event || k }
ModelRecord(old, k, ev) == [def |-> TRUE, prop |-> k, event |-> Or(ev, k)]

\* Prop(options) applied to the member k
Prop(k, options) ==
    /\ Len(history) < MaxDecorators
    /\ props' = SetProp(props, k, DefaultOptions(options))
    /\ history' = Append(history, [d |-> "Prop", k |-> k, ev |-> Undefined,
                                   options |-> options])
    /\ UNCHANGED <<props0, model>>
    /\ UNCHANGED <<emitVars, injectVars, provideVars, watchVars>>

\* Model(ev, options) applied to the member k
Model(k, ev, options) ==
    /\ Len(history) < MaxDecorators
    /\ props' = SetProp(props, k, DefaultOptions(options))
    /\ model' = ModelRecord(model, k, ev)
    /\ history' = Append(history, [d |-> "Model", k |-> k, ev |-> ev,
                                   options |-> options])
    /\ UNCHANGED props0
    /\ UNCHANGED <<emitVars, injectVars, provideVars, watchVars>>

----------------------------------------------------------------------------
(* Inject                                                                  *)

Svc == Str(<<"s", "v", "c">>)
\* {from: 'svc', default: 0}
FromDefault == Val("object", <<"f", "d">>)
\* Inject(), Inject(''), Inject('svc') and Inject({from, default})
InjectArgs == {Undefined, EmptyStr, Svc, FromDefault}

\* componentOptions.inject: undefined, an object, or an array (arr holds its
\* elements, m what is stored under the member names)
NoInject == [kind |-> "undefined", m |-> NoEntries, arr |-> <<>>]

InjectIdle ==
    /\ inject = NoInject
    /\ inject0 = NoInject

\* a mutant of SetInject: the Array.isArray test forgotten
SetInject_NoArrayTest(inj, k, options) ==
    LET i1 == IF inj.kind = "undefined" THEN [inj EXCEPT !.kind = "object"] ELSE inj
    IN  [i1 EXCEPT !.m[k] = Or(options, k)]

\* the body of Inject's callback
SetInject(inj, k, options) ==
    LET i1 == IF inj.kind = "undefined" THEN [inj EXCEPT !.kind = "object"] ELSE inj
    IN  IF i1.kind # "array" THEN [i1 EXCEPT !.m[k] = Or(options, k)] ELSE i1

\* Inject(options) applied to the member k
Inject(k, options) ==
    /\ Len(history) < MaxDecorators
    /\ inject' = SetInject(inject, k, options)
    /\ history' = Append(history, [d |-> "Inject", k |-> k, options |-> options])
    /\ UNCHANGED inject0
    /\ UNCHANGED <<emitVars, propVars, provideVars, watchVars>>

----------------------------------------------------------------------------
(* Provide                                                                 *)

KeyX == Str(<<"x">>)
\* Provide(), Provide(''), Provide('x') and Provide('b')
ProvideArgs == {Undefined, EmptyStr, KeyX, FieldB}
\* the keys an object returned by provide() can hold
ProvideKeys == {FieldA, FieldB, KeyX}
\* the values of an instance's fields
FieldValues == {One, Two}

\* a static provide object, and the object a provide function returns
StaticProvide == Val("object", <<"s">>)
FnResult == Val("object", <<"r">>)

\* componentOptions.provide: kind is typeof-like ("undefined", "object" or
\* "function"); id tells the functions apart (0: one the component brought
\* along); managed is the wrapper's managed object, its entries in insertion
\* order; original is the kind of the value the wrapper closed over
NoProvide == [kind |-> "undefined", id |-> 0, hasManaged |-> FALSE,
              managed |-> <<>>, original |-> "undefined"]
NotCalled == [called |-> FALSE, proto |-> Undefined,
              own |-> [k \in ProvideKeys |-> Undefined],
              this |-> [k \in Members |-> Undefined]]

ProvideIdle ==
    /\ provide = NoProvide
    /\ provide0 = NoProvide
    /\ created = 0
    /\ rv = NotCalled

\* a mutant of NeedsWrapper: `|| provide.managed`, the negation forgotten
NeedsWrapper_Negated(p) == p.kind # "function" \/ p.hasManaged

\* typeof provide !== 'function' || !provide.managed
NeedsWrapper(p) == p.kind # "function" \/ ~p.hasManaged

\* managed[k] = v on an object whose entries are kept in insertion order
Put(managed, k, v) ==
    IF \E i \in 1..Len(managed) : managed[i].name = k
    THEN [i \in 1..Len(managed) |->
             IF managed[i].name = k THEN [name |-> k, key |-> v] ELSE managed[i]]
    ELSE Append(managed, [name |-> k, key |-> v])

\* (typeof original === 'function' ? original.call(this) : original) || null
Base(original) ==
    LET value == IF original = "function" THEN FnResult
                 ELSE IF original = "object" THEN StaticProvide
                 ELSE Undefined
    IN  Or(value, Null)

\* for (let i in provide.managed) rv[provide.managed[i]] = this[i]
RECURSIVE ForIn(_, _, _, _)
ForIn(own, managed, i, this) ==
    IF i > Len(managed) THEN own
    ELSE ForIn([own EXCEPT ![managed[i].key] = this[managed[i].name]],
               managed, i + 1, this)

\* Provide(k0) applied to the member k
Provide(k, k0) ==
    /\ Len(history) < MaxDecorators
    /\ ~rv.called
    /\ LET wrap == NeedsWrapper(provide)
           p1 == IF wrap
                 THEN [kind |-> "function", id |-> created + 1, hasManaged |-> TRUE,
                       managed |-> <<>>, original |-> provide.kind]
                 ELSE provide
       IN  /\ provide' = [p1 EXCEPT !.managed = Put(@, k, Or(k0, k))]
           /\ created' = IF wrap THEN created + 1 ELSE created
    /\ history' = Append(history, [d |-> "Provide", k |-> k, key |-> k0])
    /\ UNCHANGED <<provide0, rv>>
    /\ UNCHANGED <<emitVars, propVars, injectVars, watchVars>>

\* the wrapper called on an instance whose fields hold this
CallProvide(this) ==
    /\ provide.kind = "function"
    /\ provide.hasManaged
    /\ rv' = [called |-> TRUE, proto |-> Base(provide.original),
              own |-> ForIn(NotCalled.own, provide.managed, 1, this),
              this |-> this]
    /\ UNCHANGED <<provide, provide0, created, history>>
    /\ UNCHANGED <<emitVars, propVars, injectVars, watchVars>>

----------------------------------------------------------------------------
(* Watch                                                                   *)

PathP == Str(<<"p">>)
PathQ == Str(<<"q">>)
Paths == {PathP, PathQ}
\* the names of the decorated methods
OnP == Str(<<"o", "n", "P">>)
OnQ == Str(<<"o", "n", "Q">>)
Handlers == {OnP, OnQ}
\* Watch(path), Watch(path, {deep: true}), Watch(path, {deep: false, immediate: true})
WatchOptionsArgs == {[deep |-> Undefined, immediate |-> Undefined],
                     [deep |-> True, immediate |-> Undefined],
                     [deep |-> False, immediate |-> True]}

\* what a component may hold under a path before Watch runs: nothing, one
\* descriptor object, an array of descriptors, a function, a method name
Descriptor(handler, deep, immediate) ==
    [handler |-> handler, deep |-> deep, immediate |-> immediate]
Old == Descriptor(Str(<<"o", "l", "d">>), False, False)
NoEntry == [t |-> "undefined", items |-> <<>>]
ObjectEntry == [t |-> "object", items |-> <<Old>>]
ArrayEntry == [t |-> "array", items |-> <<Old>>]
FunctionEntry == [t |-> "function", items |-> <<Old>>]
StringEntry == [t |-> "string", items |-> <<Old>>]

NoPaths == [p \in Paths |-> NoEntry]
\* componentOptions.watch: undefined, or an object
NoWatch == [def |-> FALSE, m |-> NoPaths]

WatchIdle ==
    /\ watch = NoWatch
    /\ watch0 = NoWatch
    /\ threw = FALSE

\* const { deep = false, immediate = false } = options
Default(v) == IF v = Undefined THEN False ELSE v

\* if (typeof watch[path] === 'object' && !Array.isArray(watch[path])) ...
\* else if (typeof watch[path] === 'undefined') ...
Normalize(entry) ==
    IF entry.t = "object" THEN [t |-> "array", items |-> entry.items]
    ELSE IF entry.t = "undefined" THEN [t |-> "array", items |-> <<>>]
    ELSE entry

\* a mutant of push: the descriptor is put in front
push_Front(items, d) == <<d>> \o items

\* Array.prototype.push
push(items, d) == Append(items, d)

\* Watch(path, options) applied to the method handler; watch[path].push is
\* not a function and the call raises a TypeError unless watch[path] is an array
Watch(path, options, handler) ==
    /\ Len(history) < MaxDecorators
    /\ ~threw
    /\ LET w1 == IF ~watch.def THEN [def |-> TRUE, m |-> NoPaths] ELSE watch
           entry == Normalize(w1.m[path])
           d == Descriptor(handler, Default(options.deep), Default(options.immediate))
       IN  IF entry.t = "array"
           THEN /\ watch' = [w1 EXCEPT !.m[path] = [entry EXCEPT !.items = push(@, d)]]
                /\ threw' = FALSE
           ELSE /\ watch' = [w1 EXCEPT !.m[path] = entry]
                /\ threw' = TRUE
    /\ history' = Append(history, [d |-> "Watch", path |-> path, options |-> options,
                                   handler |-> handler])
    /\ UNCHANGED watch0
    /\ UNCHANGED <<emitVars, propVars, injectVars, provideVars>>

----------------------------------------------------------------------------
(* Specifications: one per decorator, each on a state in which the other   *)
(* decorators have not been applied.                                       *)

\* Emit applied to every method name up to MaxKeyLen characters
InitHyphenate ==
    /\ event \in {Undefined, Go}
    /\ key \in Names
    /\ hkey = Undefined
    /\ calls = <<>>
    /\ PropIdle /\ InjectIdle /\ ProvideIdle /\ WatchIdle
    /\ history = <<>>

SpecHyphenate == InitHyphenate /\ [][Emit]_vars

\* a method doThing, decorated with Emit and then called
InitEmit ==
    /\ event \in Events
    /\ key = DoThing
    /\ hkey = Undefined
    /\ calls = <<>>
    /\ PropIdle /\ InjectIdle /\ ProvideIdle /\ WatchIdle
    /\ history = <<>>

NextEmit ==
    \/ Emit
    \/ \E args \in ArgLists, ret \in Immediates :
           emitter(args, ret, "none", Undefined, FALSE)
    \/ \E args \in ArgLists, ret \in Deferreds, st \in {"pending", "rejected"} :
           emitter(args, ret, st, Undefined, FALSE)
    \/ \E args \in ArgLists, ret \in Deferreds, val \in SettledValues, sync \in BOOLEAN :
           emitter(args, ret, "fulfilled", val, sync /\ ret = Thenable)
    \/ \E c \in 1..Len(calls), v \in SettledValues : Settle(c, v)
    \/ \E c \in 1..Len(calls) : Reject(c)
    \/ \E c \in 1..Len(calls) : RunReaction(c)
    \/ \E c \in 1..Len(calls) : ThenableRepeat(c)

SpecEmit == InitEmit /\ [][NextEmit]_vars

\* the job queue runs every callback of a fulfilled promise
FairSpecEmit == SpecEmit /\ \A c \in 1..MaxCalls : WF_vars(RunReaction(c))

ModelOptionsArgs == {Undefined, Required}

InitProps ==
    /\ props \in {NoProps, [def |-> TRUE, m |-> NoEntries],
                  [def |-> TRUE, m |-> [NoEntries EXCEPT ![FieldB] = NumberCtor]]}
    /\ props0 = props
    /\ model = NoModel
    /\ EmitIdle /\ InjectIdle /\ ProvideIdle /\ WatchIdle
    /\ history = <<>>

NextProps ==
    \/ \E k \in Members, options \in PropOptionsArgs : Prop(k, options)
    \/ \E k \in Members, ev \in ModelEvents, options \in ModelOptionsArgs :
           Model(k, ev, options)

SpecProps == InitProps /\ [][NextProps]_vars

InitInject ==
    /\ inject \in {NoInject,
                   [kind |-> "object", m |-> NoEntries, arr |-> <<>>],
                   [kind |-> "object", m |-> [NoEntries EXCEPT ![FieldB] = Svc], arr |-> <<>>],
                   [kind |-> "array", m |-> NoEntries, arr |-> <<Svc>>]}
    /\ inject0 = inject
    /\ EmitIdle /\ PropIdle /\ ProvideIdle /\ WatchIdle
    /\ history = <<>>

NextInject == \E k \in Members, options \in InjectArgs : Inject(k, options)

SpecInject == InitInject /\ [][NextInject]_vars

InitProvide ==
    /\ provide \in {NoProvide,
                    [NoProvide EXCEPT !.kind = "object"],
                    [NoProvide EXCEPT !.kind = "function"]}
    /\ provide0 = provide
    /\ created = 0
    /\ rv = NotCalled
    /\ EmitIdle /\ PropIdle /\ InjectIdle /\ WatchIdle
    /\ history = <<>>

NextProvide ==
    \/ \E k \in Members, k0 \in ProvideArgs : Provide(k, k0)
    \/ \E this \in [Members -> FieldValues] : CallProvide(this)

SpecProvide == InitProvide /\ [][NextProvide]_vars

InitWatch ==
    /\ watch \in {NoWatch} \cup
                 {[def |-> TRUE, m |-> [p \in Paths |-> IF p = PathP THEN e ELSE f]] :
                      e \in {NoEntry, ObjectEntry, ArrayEntry, FunctionEntry, StringEntry},
                      f \in {NoEntry, ArrayEntry}}
    /\ watch0 = watch
    /\ threw = FALSE
    /\ EmitIdle /\ PropIdle /\ InjectIdle /\ ProvideIdle
    /\ history = <<>>

NextWatch ==
    \E path \in Paths, options \in WatchOptionsArgs, handler \in Handlers :
        Watch(path, options, handler)

SpecWatch == InitWatch /\ [][NextWatch]_vars

----------------------------------------------------------------------------
(* What the properties below are stated with.                              *)

\* a name, key or option was supplied: an absent argument is undefined, and
\* the empty string, which `||` treats alike, names nothing
Given(x) == x # Undefined /\ x # EmptyStr

\* the greatest element of a non-empty set of numbers
Last(S) == CHOOSE i \in S : \A j \in S : j <= i
\* the least element of a non-empty set of numbers
First(S) == CHOOSE i \in S : \A j \in S : i <= j

\* the registrations of the member k, as positions of history
Regs(k) == {i \in 1..Len(history) : history[i].k = k}

\* the event name of the Emit under test
ExpectedEventName == IF Given(event) THEN event ELSE Str(hyphenate(key))

\* the positions of call c's $emit invocations in its events
Emits(c) == {i \in 1..Len(calls[c].events) : calls[c].events[i].e = "emit"}

\* the leading return-value argument of an emission
Lead(v) == IF v # Undefined THEN <<v>> ELSE <<>>

----------------------------------------------------------------------------
(* C1: a call of an Emit-wrapped method that returned a deferred value     *)
(* (a native Promise or an object with a callable then) emits nothing      *)
(* before that value is fulfilled (an $emit of the call exists only in     *)
(* states where it is fulfilled); once it is fulfilled with v, $emit runs  *)
(* with (eventName, v, ...the call's own arguments) when v is not          *)
(* undefined and with (eventName, ...the call's own arguments) when v is   *)
(* undefined; while it is pending or rejected, no $emit of that call       *)
(* exists. Calls may be outstanding together and settle in any order.      *)

\* C1, the order and the arguments: an $emit of a call that returned a
\* deferred value exists only once that value is fulfilled, and the first
\* one carries the event name, the fulfilment value unless it is undefined,
\* and the call's arguments
C1_Safety ==
    \A c \in 1..Len(calls) :
        (calls[c].ret \in Deferreds /\ Emits(c) # {}) =>
            LET call == calls[c]
                i == First(Emits(c))
            IN  /\ call.st = "fulfilled"
                /\ call.events[i].argv = <<ExpectedEventName>> \o Lead(call.val) \o call.orig

\* C1: C1_Safety always holds, and a fulfilled deferred value leads to the
\* $emit of its call
C1_DeferredEmit ==
    /\ []C1_Safety
    /\ \A c \in 1..MaxCalls :
           (c <= Len(calls) /\ calls[c].ret \in Deferreds /\ calls[c].st = "fulfilled")
               ~> (c <= Len(calls) /\ Emits(c) # {})

\* two calls outstanding together; the second, a thenable, was fulfilled
\* with undefined and has emitted while the first is still pending
C1_Witness ==
    /\ Len(calls) = 2
    /\ calls[1].ret = NativePromise /\ calls[1].st = "pending"
    /\ calls[2].ret = Thenable /\ calls[2].orig = <<One, Two>>
    /\ calls[2].val = Undefined /\ Emits(2) # {}

\* C1 as stated: the fulfilment value always leads the emitted arguments
C1_Original ==
    \A c \in 1..Len(calls) :
        (calls[c].ret \in Deferreds /\ Emits(c) # {}) =>
            LET call == calls[c]
                i == First(Emits(c))
            IN  /\ call.st = "fulfilled"
                /\ call.events[i].argv = <<ExpectedEventName, call.val>> \o call.orig

----------------------------------------------------------------------------
(* C2: a call with arguments args whose return value r is immediate runs   *)
(* original, then $emit, then returns; $emit gets (eventName, r, ...args)  *)
(* when r is not undefined, null, false, 0 and '' included, and            *)
(* (eventName, ...args) when r is undefined; eventName is the event name   *)
(* given to Emit, else the hyphenated method name.                         *)

\* C2: the events of a call with an immediate return value are original,
\* $emit with the expected arguments, return
C2_ImmediateEmit ==
    \A c \in 1..Len(calls) :
        calls[c].ret \in Immediates =>
            calls[c].events =
                << Ev("original", calls[c].orig),
                   Ev("emit", <<ExpectedEventName>> \o Lead(calls[c].ret) \o calls[c].orig),
                   Ev("return", <<>>) >>

\* Emit() on doThing; one call returned 0, another returned nothing
C2_Witness ==
    /\ event = Undefined
    /\ Len(calls) = 2
    /\ calls[1].ret = Zero /\ calls[1].orig = <<One, Two>>
    /\ calls[2].ret = Undefined /\ calls[2].orig = <<One, Two>>
    /\ EventName = Str(<<"d", "o", "-", "t", "h", "i", "n", "g">>)

----------------------------------------------------------------------------
(* C3: without an event name, Emit's event name is the method name with    *)
(* every upper-case letter lower-cased, and with a hyphen in front of      *)
(* each upper-case letter that directly follows a letter, a digit or `_`;  *)
(* an upper-case letter at the start of the name or directly after `$`     *)
(* gets no hyphen.                                                         *)

RECURSIVE Flatten(_)
Flatten(pieces) ==
    IF pieces = <<>> THEN <<>> ELSE Head(pieces) \o Flatten(Tail(pieces))

HyphenCase(str) ==
    Flatten([i \in 1..Len(str) |->
                IF IsUpper(str[i]) /\ i > 1 /\ IsWordChar(str[i - 1])
                THEN <<"-", ToLower(str[i])>>
                ELSE <<ToLower(str[i])>>])

\* C3: without an event name, the event name is the hyphen-cased method name
C3_Hyphenate ==
    (hkey # Undefined /\ event = Undefined) => EventName = Str(HyphenCase(key))

C3_Witness ==
    /\ hkey # Undefined
    /\ event = Undefined
    /\ key = <<"a", "B", "Z">>
    /\ EventName = Str(<<"a", "-", "b", "-", "z">>)

\* C3 as stated: every upper-case letter but the first character gets a
\* hyphen and is lower-cased; the first character stays as it is
ClaimedHyphenCase(str) ==
    Flatten([i \in 1..Len(str) |->
                IF i = 1 THEN <<str[i]>>
                ELSE IF IsUpper(str[i]) THEN <<"-", ToLower(str[i])>>
                ELSE <<str[i]>>])

C3_Original ==
    (hkey # Undefined /\ event = Undefined) => EventName = Str(ClaimedHyphenCase(key))

----------------------------------------------------------------------------
(* C9: every call of the wrapper runs original exactly once, with the      *)
(* call's arguments and before any $emit of the call; $emit runs at most   *)
(* once per call, and its arguments hold at most one return value in       *)
(* front of the call's arguments, also for a thenable that runs its        *)
(* success callback more than once.                                        *)

\* C9: original runs once and first, $emit at most once, with at most one
\* leading return value
C9_EmitOnce ==
    \A c \in 1..Len(calls) :
        LET ev == calls[c].events
        IN  /\ ev[1] = Ev("original", calls[c].orig)
            /\ \A i \in 2..Len(ev) : ev[i].e # "original"
            /\ Cardinality(Emits(c)) <= 1
            /\ \A i \in Emits(c) : Len(ev[i].argv) <= 1 + 1 + Len(calls[c].orig)

----------------------------------------------------------------------------
(* C4: after any sequence of Provide registrations on options whose        *)
(* provide was absent, a static value or a function without a managed      *)
(* set, provide is the one wrapper the first registration created; its     *)
(* managed set holds one entry per registered field, mapped to the key     *)
(* supplied last for it or to the field's name; called on an instance, the *)
(* wrapper returns a new object whose prototype is the earlier static or   *)
(* functional provide value and which holds, under every mapped key, the   *)
(* instance's value of the field mapped to that key, of the one that was   *)
(* first registered last when several fields are mapped to the same key.   *)

\* the fields registered so far
Registered == {history[i].k : i \in 1..Len(history)}

\* the key the field k is provided under
ProvidedAs(k) ==
    LET k0 == history[Last(Regs(k))].key
    IN  IF Given(k0) THEN k0 ELSE k

\* what the provide value the component brought along yields as base object
PriorValue ==
    IF provide0.kind = "function" THEN FnResult
    ELSE IF provide0.kind = "object" THEN StaticProvide
    ELSE Null

\* C4, the wrapper: one function, created once, with one managed entry per
\* registered field
C4_Wrapper ==
    history # <<>> =>
        /\ provide.kind = "function"
        /\ provide.id = 1
        /\ created = 1
        /\ {provide.managed[i].name : i \in 1..Len(provide.managed)} = Registered
        /\ Len(provide.managed) = Cardinality(Registered)
        /\ \A i \in 1..Len(provide.managed) :
               provide.managed[i].key = ProvidedAs(provide.managed[i].name)

\* C4: the wrapper is single, and the object it returns has the earlier
\* provide value as prototype and, under every mapped key, the value of the
\* field that was entered into the managed set last among those mapped to it
C4_Provide ==
    /\ C4_Wrapper
    /\ rv.called =>
           /\ rv.proto = PriorValue
           /\ \A pk \in ProvideKeys :
                  LET fields == {k \in Registered : ProvidedAs(k) = pk}
                      winner == CHOOSE k \in fields :
                                    \A o \in fields : First(Regs(o)) <= First(Regs(k))
                  IN  rv.own[pk] = IF fields = {} THEN Undefined ELSE rv.this[winner]

\* Provide('x') a and Provide() b on a component with a static provide
\* object, called on an instance with a = 1 and b = 2
C4_Witness ==
    /\ provide0.kind = "object"
    /\ Len(history) = 2
    /\ history[1].k = FieldA /\ history[1].key = KeyX
    /\ history[2].k = FieldB /\ history[2].key = Undefined
    /\ rv.called
    /\ rv.this[FieldA] = One /\ rv.this[FieldB] = Two
    /\ rv.own[KeyX] = One /\ rv.own[FieldB] = Two
    /\ rv.proto = StaticProvide

\* C4 as stated: the returned object holds every managed entry's field
\* value under the entry's key
C4_Original ==
    /\ C4_Wrapper
    /\ rv.called =>
           /\ rv.proto = PriorValue
           /\ \A i \in 1..Len(provide.managed) :
                  rv.own[provide.managed[i].key] = rv.this[provide.managed[i].name]

----------------------------------------------------------------------------
(* C5: on options that start without watch entries, after any sequence of  *)
(* Watch registrations watch[p] is, for every path p, the array of one     *)
(* descriptor {handler, deep, immediate} per Watch(p) registration, in     *)
(* registration order, deep and immediate being false where not supplied;  *)
(* registrations of other paths leave watch[p] alone.                      *)

\* the descriptors of the Watch(p) registrations, in registration order
DescriptorsOf(p) ==
    LET OfPath(h) == h.path = p
        regs == SelectSeq(history, OfPath)
    IN  [i \in 1..Len(regs) |->
            Descriptor(regs[i].handler,
                       IF regs[i].options.deep = Undefined THEN False
                       ELSE regs[i].options.deep,
                       IF regs[i].options.immediate = Undefined THEN False
                       ELSE regs[i].options.immediate)]

\* C5: with no watch entries to start with, no registration fails and every
\* watch[p] is the array of the descriptors registered for p, in order
C5_WatchOrder ==
    (\A p \in Paths : watch0.m[p] = NoEntry) =>
        /\ ~threw
        /\ \A p \in Paths :
               watch.m[p] = IF DescriptorsOf(p) = <<>> THEN NoEntry
                            ELSE [t |-> "array", items |-> DescriptorsOf(p)]

\* Watch('p') on onP, Watch('q', {deep: true}) on onQ, Watch('p') on onQ
C5_Witness ==
    /\ ~watch0.def
    /\ Len(history) = 3
    /\ history[1].path = PathP /\ history[1].handler = OnP
    /\ history[2].path = PathQ /\ history[2].options.deep = True
    /\ history[3].path = PathP /\ history[3].handler = OnQ
    /\ watch.m[PathP].items = <<Descriptor(OnP, False, False),
                                Descriptor(OnQ, Default(history[3].options.deep),
                                           Default(history[3].options.immediate))>>

----------------------------------------------------------------------------
(* C10: whatever watch[path] held before (nothing, a descriptor object, an *)
(* array of descriptors, a function, a method name), a Watch registration  *)
(* completes without error and leaves watch[path] an array of the earlier  *)
(* entries in their order followed by the new descriptors.                 *)

\* C10: no registration fails, and every registered path holds the earlier
\* entries followed by the new descriptors
C10_WatchKeepsEntries ==
    /\ ~threw
    /\ \A p \in Paths :
           DescriptorsOf(p) # <<>> =>
               watch.m[p] = [t |-> "array",
                             items |-> watch0.m[p].items \o DescriptorsOf(p)]

----------------------------------------------------------------------------
(* C6: Inject applied to the member k, on options whose inject is absent   *)
(* or an object, leaves inject[k] the supplied key or {from, default}      *)
(* record, or k when none was supplied, and every other entry as it was;   *)
(* on options whose inject is an array it writes nothing and raises no     *)
(* error.                                                                  *)

\* C6: an array inject is left as it was; otherwise inject[k] is what the
\* last Inject for k supplied, or k, and the other entries are untouched
C6_Inject ==
    /\ ~threw
    /\ inject0.kind = "array" => inject = inject0
    /\ inject0.kind # "array" =>
           /\ history # <<>> => inject.kind = "object"
           /\ inject.arr = inject0.arr
           /\ \A k \in Members :
                  inject.m[k] =
                      IF Regs(k) = {} THEN inject0.m[k]
                      ELSE LET options == history[Last(Regs(k))].options
                           IN  IF Given(options) THEN options ELSE k

\* Inject({from, default}) and Inject() applied on options whose inject is an array
C6_Witness ==
    /\ inject0.kind = "array"
    /\ Len(history) = 2
    /\ history[1].options = FromDefault
    /\ history[2].options = Undefined
    /\ inject.arr = <<Svc>>

----------------------------------------------------------------------------
(* C7: Prop(o) applied to the member k leaves props[k] = o, the empty      *)
(* record when no options were given, and every other entry of props as    *)
(* it was; after any sequence of registrations props[k] is what the last   *)
(* registration for k wrote, with no trace of the earlier ones, and an     *)
(* entry of a member that was never registered is the one the options      *)
(* started with.                                                           *)

\* the options a registration writes
Written(h) == IF h.options = Undefined THEN EmptyObj ELSE h.options

\* C7: props[k] is what the last registration for k wrote, or what the
\* options started with
C7_Prop ==
    \A k \in Members :
        IF Regs(k) = {} THEN props.m[k] = props0.m[k]
        ELSE props.def /\ props.m[k] = Written(history[Last(Regs(k))])

\* Prop({required: true}) and then Prop() on a, on options that declare b
C7_Witness ==
    /\ props0.m[FieldB] = NumberCtor
    /\ Len(history) = 2
    /\ history[1] = [d |-> "Prop", k |-> FieldA, ev |-> Undefined, options |-> Required]
    /\ history[2] = [d |-> "Prop", k |-> FieldA, ev |-> Undefined, options |-> Undefined]
    /\ props.m[FieldA] = EmptyObj
    /\ props.m[FieldB] = NumberCtor

----------------------------------------------------------------------------
(* C8: after any sequence of Model registrations, model is the one record  *)
(* {prop, event} of the last Model: prop is its member's name, event the   *)
(* supplied event name or the member's name; every Model also writes its   *)
(* options to props[k], so an earlier Model's entry for another member     *)
(* stays in props.                                                         *)

\* the Model registrations, as positions of history
Models == {i \in 1..Len(history) : history[i].d = "Model"}

\* C8: model is the record of the last Model, and props keeps what the last
\* Model for each member wrote
C8_Model ==
    /\ Models = {} => model = NoModel
    /\ Models # {} =>
           LET h == history[Last(Models)]
           IN  model = [def |-> TRUE, prop |-> h.k,
                        event |-> IF Given(h.ev) THEN h.ev ELSE h.k]
    /\ \A k \in Members :
           (Regs(k) # {} /\ history[Last(Regs(k))].d = "Model") =>
               props.m[k] = Written(history[Last(Regs(k))])

\* Model('chg', {required: true}) on a and then Model() on b
C8_Witness ==
    /\ Len(history) = 2
    /\ history[1] = [d |-> "Model", k |-> FieldA, ev |-> Change, options |-> Required]
    /\ history[2] = [d |-> "Model", k |-> FieldB, ev |-> Undefined, options |-> Undefined]
    /\ model = [def |-> TRUE, prop |-> FieldB, event |-> FieldB]
    /\ props.m[FieldA] = Required
    /\ props.m[FieldB] = EmptyObj

=============================================================================
